---------------------------- MODULE Spec2Model ----------------------------
(***************************************************************************)
(* Model of the feature-extraction pipeline of wikipedia-npov-classifier.  *)
(*                                                                         *)
(* The module holds one state machine per component of the pipeline:       *)
(*   SpecFetch    fetchWithRetry and the process-wide cache (train.ts)     *)
(*   SpecRisk     fetchRevertRiskScore (train.ts)                          *)
(*   SpecHistory  fetchPastRevisions, fetchDiffFromUrl (train.ts)          *)
(*   SpecBatch    doInBatches (unnamed/part_000)                           *)
(*   SpecStats    extractDistributionStatistics (train.ts)                 *)
(*   SpecDiff     fetchDiffFromRevId: validation and extraction (train.ts) *)
(*   SpecFeatures extractFeatures (train.ts)                               *)
(* A component that is not running is "parked": its variables hold a value *)
(* in which none of its actions is enabled.  Spec is the union of the      *)
(* components.                                                             *)
(***************************************************************************)
EXTENDS Integers, Sequences, FiniteSets, TLC

VARIABLES
    cache,      \* train.ts:422  Map<string, any>: a function URL -> payload
    calls,      \* fetchWithRetry: the activations, slot -> record
    ncalls,     \* fetchWithRetry: number of top-level calls made so far
    risk,       \* fetchRevertRiskScore: the state of one call
    wiki,       \* the upstream article: its revisions and the API's page size
    hist,       \* fetchPastRevisions: the state of one call
    batch,      \* doInBatches: the state of one call
    stats,      \* extractDistributionStatistics: the state of one call
    dtext,      \* fetchDiffFromRevId: a compare payload and what is made of it
    feat        \* extractFeatures: the state of one call

fetchVars == <<cache, calls, ncalls>>
histVars == <<wiki, hist>>
extractVars == <<stats, dtext, feat>>

vars == <<cache, calls, ncalls, risk, wiki, hist, batch, stats, dtext, feat>>

(***************************************************************************)
(* Bounds of the model and constants of the program.                       *)
(***************************************************************************)
NumSlots == 2
MaxCalls == 3
MaxRevs == 4
MaxPageSize == 2
MaxItems == 12
MaxBatchSize == 5

rateLimitExceededWaitTimeSeconds == 10
DefaultRetryCount == 3

URLs == {"u1", "u2"}
Slots == 1..NumSlots
Vers == {"v1", "v2"}

EmptyMap == [x \in {} |-> 0]

(***************************************************************************)
(* Map.has / Map.get / Map.set of the cache.                               *)
(***************************************************************************)
CacheHas(m, url) == url \in DOMAIN m

CacheGetWrongKey(m, url) == m[CHOOSE k \in DOMAIN m : TRUE]

CacheGet(m, url) == m[url]

CacheSetIfAbsent(m, url, data) ==
    [k \in DOMAIN m \cup {url} |-> IF k \in DOMAIN m THEN m[k] ELSE data]

CacheSetAlone(m, url, data) == [k \in {url} |-> data]

CacheSet(m, url, data) == [k \in DOMAIN m \cup {url} |-> IF k = url THEN data ELSE m[k]]

(***************************************************************************)
(* fetchWithRetry.                                                         *)
(***************************************************************************)
NoResult == [kind |-> "none"]
Value(p) == [kind |-> "value", payload |-> p]
Failure(e) == [kind |-> "error", err |-> e]

\* The body the upstream sends for `url`: parsed by response.json().
Payload(url, status, ver) == [url |-> url, status |-> status, ver |-> ver]

IdleCall == [pc |-> "idle", url |-> "", retryCount |-> 0, reqs |-> 0,
             waited |-> 0, hit |-> FALSE, stored |-> 0, rivals |-> 0,
             result |-> NoResult]

\* Entry of fetchWithRetry(url, retryCount) in activation `call`: the cache
\* check, and on a miss the network request (fetch(url)) is issued and the
\* activation suspends.
Enter(call, url, retryCount) ==
    IF CacheHas(cache, url)
    THEN [call EXCEPT !.pc = "done", !.url = url, !.retryCount = retryCount,
                      !.hit = TRUE, !.result = Value(CacheGet(cache, url))]
    ELSE [call EXCEPT !.pc = "fetching", !.url = url, !.retryCount = retryCount,
                      !.reqs = @ + 1]

\* An activation that has returned or thrown hands its outcome to its caller in
\* a microtask, which runs before the callback of any timer or network
\* response: no such callback runs while an outcome is being handed over.
NoneDone == \A d \in DOMAIN calls : calls[d].pc # "done"

\* A caller invokes fetchWithRetry(url) with the default retryCount.  The new
\* activation takes the first free slot: which slot holds it has no meaning.
FetchCall(c, url) ==
    /\ calls[c].pc = "idle"
    /\ \A d \in DOMAIN calls : d < c => calls[d].pc # "idle"
    /\ ncalls < MaxCalls
    /\ ncalls' = ncalls + 1
    /\ calls' = [calls EXCEPT ![c] = Enter(calls[c], url, DefaultRetryCount)]
    /\ UNCHANGED <<extractVars, cache, risk, histVars, batch>>

\* Activation d has sent a request for url that has not been answered.
\* calls[d].rivals counts the requests of other activations for the same URL
\* that were answered and stored while the request of d was in flight.
InFlightFor(d, url) == calls[d].pc = "fetching" /\ calls[d].url = url

\* fetch resolved and response.json() parsed the body: whatever the HTTP status,
\* control leaves the try block, the payload is cached and returned.
RespondParsed(c, status, ver) ==
    /\ NoneDone
    /\ calls[c].pc = "fetching"
    /\ LET data == Payload(calls[c].url, status, ver) IN
        /\ cache' = CacheSet(cache, calls[c].url, data)
        /\ calls' = [d \in DOMAIN calls |->
                        IF d = c
                        THEN [calls[c] EXCEPT !.pc = "done", !.stored = @ + 1,
                                              !.result = Value(data)]
                        ELSE IF InFlightFor(d, calls[c].url)
                        THEN [calls[d] EXCEPT !.rivals = @ + 1]
                        ELSE calls[d]]
    /\ UNCHANGED <<extractVars, ncalls, risk, histVars, batch>>

\* The catch block's test `response && response.status === 429` has passed:
\* retryCount === 0 throws, anything else waits.
RateLimitedRetry(c) == calls[c].retryCount # 0

\* response.json() threw on a response with status 429.
RespondRateLimited(c) ==
    /\ NoneDone
    /\ calls[c].pc = "fetching"
    /\ IF RateLimitedRetry(c)
       THEN calls' = [calls EXCEPT ![c].pc = "waiting"]
       ELSE calls' = [calls EXCEPT ![c].pc = "done",
                        ![c].result = Failure("RateLimitExceeded")]
    /\ UNCHANGED <<extractVars, cache, ncalls, risk, histVars, batch>>

CacheAfterFailureStores(m, url) == CacheSet(m, url, Payload(url, 0, "v1"))

\* What the else branch of the catch block leaves in the cache: nothing new.
CacheAfterFailure(m, url) == m

\* fetch threw (response is undefined: "Transport"), or response.json() threw
\* on a response whose status is not 429 ("Parse"): the error is rethrown.
RespondFailed(c, e) ==
    /\ NoneDone
    /\ calls[c].pc = "fetching"
    /\ calls' = [calls EXCEPT ![c].pc = "done", ![c].result = Failure(e)]
    /\ cache' = CacheAfterFailure(cache, calls[c].url)
    /\ UNCHANGED <<extractVars, ncalls, risk, histVars, batch>>

\* The 10 s timer fires and the activation calls fetchWithRetry(url, retryCount - 1),
\* which checks the cache again before it issues the next request.
RetryAfterWait(c) ==
    /\ NoneDone
    /\ calls[c].pc = "waiting"
    /\ calls' = [calls EXCEPT ![c] =
            Enter([calls[c] EXCEPT !.waited = @ + rateLimitExceededWaitTimeSeconds],
                  calls[c].url, calls[c].retryCount - 1)]
    /\ UNCHANGED <<extractVars, cache, ncalls, risk, histVars, batch>>

\* The caller has taken the result; the slot may serve a later call.
FetchReturn(c) ==
    /\ calls[c].pc = "done"
    /\ calls' = [calls EXCEPT ![c] = IdleCall]
    /\ UNCHANGED <<extractVars, cache, ncalls, risk, histVars, batch>>

FetchParked ==
    /\ cache = EmptyMap
    /\ calls = EmptyMap
    /\ ncalls = 0

HistParked ==
    /\ wiki = [revs |-> <<>>, pageSize |-> 1]
    /\ hist = [pc |-> "off"]

BatchParked == batch = [pc |-> "off"]

StatsParked == stats = [pc |-> "off"]

DiffParked == dtext = [pc |-> "off"]

FeatParked == feat = [pc |-> "off"]

ExtractParked == StatsParked /\ DiffParked /\ FeatParked

(***************************************************************************)
(* fetchRevertRiskScore.  One attempt of the loop ends in one of:          *)
(*   "r429"     the response has status 429                                *)
(*   "throw"    fetch threw (transport failure)                            *)
(*   "badbody"  response.json() threw, or data.output or                   *)
(*              data.output.probabilities is missing (a TypeError)         *)
(*   "noscore"  the body parses, data.output.probabilities exists and has  *)
(*              no member `true`: the expression evaluates to undefined    *)
(*   "ok"       the body carries a score                                   *)
(***************************************************************************)
RiskRetryCount == 3
Scores == {"p25", "p75"}
RiskOutcomes == {"r429", "throw", "badbody", "noscore", "ok"}
RiskThrown == {"throw", "badbody"}

RiskArgs == {"id1", "id2"}

RiskOff == [pc |-> "off", arg |-> "", retryCount |-> 0, reqs |-> 0, waited |-> 0,
            log |-> <<>>, attempts |-> <<>>, result |-> NoResult]

RiskParked == risk = RiskOff

\* The head of the while loop: with retries left the next request is issued,
\* otherwise the loop is left and 0 is returned.
RiskLoop(r) ==
    IF r.retryCount > 0
    THEN [r EXCEPT !.pc = "fetching", !.reqs = @ + 1, !.log = Append(@, "req")]
    ELSE [r EXCEPT !.pc = "done", !.result = Value(0)]

\* fetchRevertRiskScore(revisionId) with the default retryCount.
RiskCall(revisionId) ==
    /\ risk.pc = "idle"
    /\ risk' = RiskLoop([risk EXCEPT !.arg = revisionId, !.retryCount = RiskRetryCount])
    /\ UNCHANGED <<extractVars, fetchVars, histVars, batch>>

RiskCatchesFetchOnly(o) == o = "throw"

\* The try block spans fetch, response.json() and the member access of the
\* return statement: the catch clause catches whatever any of them throws.
RiskCatches(o) == o \in RiskThrown

RiskRespond(o, score) ==
    /\ risk.pc = "fetching"
    /\ LET r == [risk EXCEPT !.attempts = Append(@, o)] IN
        risk' = CASE o = "r429" -> [r EXCEPT !.pc = "waiting"]
                  [] o = "ok" -> [r EXCEPT !.pc = "done", !.result = Value(score)]
                  [] o = "noscore" -> [r EXCEPT !.pc = "done", !.result = Value("undefined")]
                  [] o \in RiskThrown /\ RiskCatches(o) ->
                        RiskLoop([r EXCEPT !.retryCount = @ - 1])
                  [] OTHER -> [r EXCEPT !.pc = "done", !.result = Failure(o)]
    /\ UNCHANGED <<extractVars, fetchVars, histVars, batch>>

\* The 10 s timer of the 429 branch fires: retryCount--, continue.
RiskTimer ==
    /\ risk.pc = "waiting"
    /\ risk' = RiskLoop([risk EXCEPT !.retryCount = @ - 1,
                            !.waited = @ + rateLimitExceededWaitTimeSeconds,
                            !.log = Append(@, "wait")])
    /\ UNCHANGED <<extractVars, fetchVars, histVars, batch>>

RiskInit ==
    /\ risk = [RiskOff EXCEPT !.pc = "idle"]
    /\ FetchParked
    /\ HistParked
    /\ BatchParked
    /\ ExtractParked

RiskNext ==
    \/ \E revisionId \in RiskArgs : RiskCall(revisionId)
    \/ \E o \in RiskOutcomes, score \in Scores : RiskRespond(o, score)
    \/ RiskTimer

SpecRisk == RiskInit /\ [][RiskNext]_vars

(***************************************************************************)
(* The upstream revisions API, as fetchPastRevisions uses it.  Revision    *)
(* ids are 1..n in commit order; wiki.revs[id] is the revision.  A query   *)
(* answers newest-first, from rvstartid (or the latest revision) down, at  *)
(* most pageSize revisions, with a continuation "timestamp|revid" when     *)
(* older revisions remain.                                                 *)
(***************************************************************************)
Users == {"A", "B"}
TsGaps == {0, 1}

Max(a, b) == IF a >= b THEN a ELSE b

\* new Date(revision.timestamp).getTime(): milliseconds.
GetTime(t) == t * 1000

\* The unix timestamp stored in a Revision.
UnixTimestamp(t) == GetTime(t) \div 1000

HistoryUrl(rvstartid) == <<"revisions", rvstartid>>
DiffUrl(revisionId) == <<"compare", revisionId>>

QueryPage(w, rvstartid) ==
    LET n == Len(w.revs)
        start == IF rvstartid = 0 THEN n ELSE rvstartid
        last == Max(start - w.pageSize + 1, 1)
    IN  IF n = 0
        THEN [kind |-> "missing"]
        ELSE [kind |-> "page",
              revisions |-> [i \in 1..(start - last + 1) |->
                                [revid |-> start - i + 1,
                                 userid |-> w.revs[start - i + 1].userid,
                                 timestamp |-> w.revs[start - i + 1].timestamp]],
              continue |-> IF last > 1
                           THEN <<w.revs[last - 1].timestamp, last - 1>>
                           ELSE <<>>]

\* The parsed body of a successful request for `url`; "alt" is the other
\* body the upstream may send: an error object without `query` for a
\* revisions request, a text without a <pre> block for a compare request.
Upstream(w, url, body) ==
    IF url[1] = "revisions"
    THEN IF body = "alt" THEN [kind |-> "noquery"] ELSE QueryPage(w, url[2])
    ELSE IF body = "alt"
         THEN [kind |-> "compare", text |-> <<"x">>]
         ELSE [kind |-> "compare", text |-> <<"<pre>", <<"d", url[2]>>, "</pre>">>]

(***************************************************************************)
(* fetchPastRevisions, fetchDiffFromUrl, fetchDiffFromRevId.               *)
(* hist.frames is the stack of activations of the recursion, each holding  *)
(* its local `revisions`; the last frame is the running one.               *)
(***************************************************************************)
getDiffs == FALSE

Reverse(q) == [i \in 1..Len(q) |-> q[Len(q) + 1 - i]]

NoReverse(q) == q

\* revisions.reverse() of line 529.
ReverseRevisions(q) == Reverse(q)

RequestUncached(h, m, url, pc) ==
    [h EXCEPT !.pc = pc,
              !.pending = [url |-> url, hit |-> FALSE],
              !.requests = Append(@, url)]

\* fetchWithRetry(url) as fetchPastRevisions sees it, the cache being m: a
\* cache hit resumes with the cached payload, a miss sends the request.
Request(h, m, url, pc) ==
    [h EXCEPT !.pc = pc,
              !.pending = [url |-> url, hit |-> CacheHas(m, url)],
              !.requests = IF CacheHas(m, url) THEN @ ELSE Append(@, url)]

Fail(h, e) == [h EXCEPT !.pc = "done", !.frames = <<>>, !.result = Failure(e)]

SetTop(h, revisions) == [h EXCEPT !.frames[Len(h.frames)] = revisions]

FinishWithoutOldidCheck(h, m, locator) ==
    Request(SetTop(h, ReverseRevisions(h.frames[Len(h.frames)])), m,
            DiffUrl(locator.oldid), "awaitDiff")

\* Lines 529-533: reverse, then (getDiffs being false) fetchDiffFromUrl, which
\* throws on a locator without oldid and otherwise calls fetchDiffFromRevId.
Finish(h, m, locator) ==
    LET g == SetTop(h, ReverseRevisions(h.frames[Len(h.frames)])) IN
    IF getDiffs
    THEN g
    ELSE IF locator.oldid = 0
         THEN Fail(g, "InvalidLocator")
         ELSE Request(g, m, DiffUrl(locator.oldid), "awaitDiff")

\* Lines 494-503.
HCall ==
    /\ hist.pc = "idle"
    /\ hist' = IF ~hist.locator.title
               THEN Fail(hist, "InvalidLocator")
               ELSE Request([hist EXCEPT !.frames = <<<<>>>>], cache, HistoryUrl(0), "awaitPage")
    /\ UNCHANGED <<extractVars, cache, calls, ncalls, risk, wiki, batch>>

\* The revisions of one page, as pushed by the loop of lines 511-520; getDiffs
\* is the constant false, so line 518 sets every diff to null.
PageRevisions(page) ==
    [i \in 1..Len(page.revisions) |->
        [revid |-> page.revisions[i].revid,
         userId |-> page.revisions[i].userid,
         timestamp |-> UnixTimestamp(page.revisions[i].timestamp),
         diff |-> "null"]]

ProcessPageIgnoringContinue(h, m, locator, data) ==
    IF data.kind = "noquery"
    THEN Fail(h, "UnexpectedStructure")
    ELSE IF data.kind = "missing"
    THEN Fail(h, "TypeError")
    ELSE Finish(SetTop(h, PageRevisions(data)), m, locator)

\* Lines 505-533 on the payload of the page request.
ProcessPage(h, m, locator, data) ==
    IF data.kind = "noquery"
    THEN Fail(h, "UnexpectedStructure")
    ELSE IF data.kind = "missing"
    THEN Fail(h, "TypeError")
    ELSE LET g == SetTop(h, PageRevisions(data)) IN
         IF data.continue # <<>>
         THEN Request([g EXCEPT !.frames = Append(@, <<>>)], m,
                      HistoryUrl(data.continue[2]), "awaitPage")
         ELSE Finish(g, m, locator)

\* The payload fetchWithRetry hands back for the pending request.
Fetched(h, body) ==
    IF h.pending.hit THEN CacheGet(cache, h.pending.url)
    ELSE Upstream(wiki, h.pending.url, body)

CacheAfterValidFetch(h, body) ==
    LET data == Upstream(wiki, h.pending.url, body) IN
    IF h.pending.hit \/ body = "alt" \/ data.kind = "missing"
    THEN cache
    ELSE CacheSet(cache, h.pending.url, data)

\* fetchWithRetry caches what response.json() returned (line 450) before the
\* caller has looked at it.
CacheAfterFetch(h, body) ==
    IF h.pending.hit THEN cache
    ELSE CacheSet(cache, h.pending.url, Upstream(wiki, h.pending.url, body))

\* The page request completes (line 503 resumes).
HPage(body) ==
    /\ hist.pc = "awaitPage"
    /\ hist.pending.hit => body = "ok"
    /\ hist' = ProcessPage(hist, CacheAfterFetch(hist, body), hist.locator,
                            Fetched(hist, body))
    /\ cache' = CacheAfterFetch(hist, body)
    /\ UNCHANGED <<extractVars, calls, ncalls, risk, wiki, batch>>

\* fetchWithRetry throws: the error leaves every activation of the recursion.
HFetchFails(e) ==
    /\ hist.pc \in {"awaitPage", "awaitDiff"}
    /\ ~hist.pending.hit
    /\ hist' = Fail(hist, e)
    /\ UNCHANGED <<extractVars, cache, calls, ncalls, risk, wiki, batch>>

CountPre(text) == Cardinality({i \in 1..Len(text) : text[i] = "<pre>"})

\* Lines 556-570 of fetchDiffFromRevId on a compare payload.
ExtractDiff(data) ==
    IF data.kind # "compare"
    THEN Failure("UnexpectedStructure")
    ELSE IF CountPre(data.text) # 1
    THEN Failure("UnexpectedDiffFormat")
    ELSE LET open == CHOOSE i \in 1..Len(data.text) : data.text[i] = "<pre>"
             closes == {j \in (open + 1)..Len(data.text) : data.text[j] = "</pre>"}
         IN  IF closes = {}
             THEN Failure("TypeError")
             ELSE LET close == CHOOSE j \in closes : \A k \in closes : j <= k
                  IN  Value(SubSeq(data.text, open + 1, close - 1))

\* Line 532 assigns the diff to revisions[0] and line 535 returns; the caller
\* is the top of the call (the result) or the activation of the page before,
\* which resumes at line 526: push(...nextRevisions), then lines 529-533.
HDiff(body) ==
    /\ hist.pc = "awaitDiff"
    /\ hist.pending.hit => body = "ok"
    /\ LET d == ExtractDiff(Fetched(hist, body))
           k == Len(hist.frames)
           returned == [hist.frames[k] EXCEPT ![1].diff = d.payload]
       IN  hist' = IF d.kind = "error"
                   THEN Fail(hist, d.err)
                   ELSE IF k = 1
                   THEN [hist EXCEPT !.pc = "done", !.frames = <<>>,
                                     !.result = Value(returned)]
                   ELSE Finish([hist EXCEPT !.frames =
                                   [SubSeq(hist.frames, 1, k - 1)
                                       EXCEPT ![k - 1] = @ \o returned]],
                               CacheAfterFetch(hist, body), hist.locator)
    /\ cache' = CacheAfterFetch(hist, body)
    /\ UNCHANGED <<extractVars, calls, ncalls, risk, wiki, batch>>

\* The articles of the model: up to MaxRevs revisions, commit times that do
\* not decrease with the revision id, one of two authors each.
Articles ==
    UNION {[1..n -> [userid : Users, gap : TsGaps]] : n \in 0..MaxRevs}

RECURSIVE SumGaps(_, _)
SumGaps(a, i) == IF i <= 1 THEN 0 ELSE a[i].gap + SumGaps(a, i - 1)

WikiInit ==
    \E a \in Articles, k \in 1..MaxPageSize :
        wiki = [revs |-> [i \in 1..Len(a) |->
                            [userid |-> a[i].userid, timestamp |-> SumGaps(a, i)]],
                pageSize |-> k]

\* fetchPastRevisions(revisionUrl) about to run on the locator.
HistIdle(locator) ==
    [pc |-> "idle", locator |-> locator,
     frames |-> <<>>, pending |-> [url |-> <<>>, hit |-> FALSE],
     requests |-> <<>>, result |-> NoResult]

HistInit ==
    /\ WikiInit
    /\ \E title \in BOOLEAN, oldid \in 0..MaxRevs :
          /\ oldid <= Len(wiki.revs)
          /\ hist = HistIdle([title |-> title, oldid |-> oldid])
    /\ cache = EmptyMap
    /\ calls = EmptyMap
    /\ ncalls = 0
    /\ RiskParked
    /\ BatchParked
    /\ ExtractParked

HistNext ==
    \/ HCall
    \/ \E body \in {"ok", "alt"} : HPage(body)
    \/ \E body \in {"ok", "alt"} : HDiff(body)
    \/ \E e \in {"Transport", "RateLimitExceeded"} : HFetchFails(e)

SpecHistory == HistInit /\ [][HistNext]_vars

(***************************************************************************)
(* doInBatches(fn, maxBatchSize, ts).  The input list has n items; item j  *)
(* (1-based here, j - 1 in the code) is Ts(n)[j].  batch.i is the loop     *)
(* variable, batch.vals the positional result array of the Promise.all in  *)
(* progress, batch.inflight the invocations of fn that have not settled.   *)
(***************************************************************************)
Ts(n) == [j \in 1..n |-> <<"t", j>>]

\* What fn resolves to for item t.
FnResult(t) == <<"r", t>>

Min(a, b) == IF a <= b THEN a ELSE b

\* The loop head at index i: ts.slice(i, i + maxBatchSize), batch.map(fn),
\* Promise.all; or, at the end of the list, return result.
LoopHead(b, i) ==
    IF i < b.n
    THEN LET items == (i + 1)..Min(i + b.k, b.n) IN
         [b EXCEPT !.i = i,
                   !.started = @ \cup items,
                   !.inflight = @ \cup items,
                   !.vals = [p \in 1..Cardinality(items) |-> "pending"],
                   !.sizes = Append(@, Cardinality(items))]
    ELSE [b EXCEPT !.pc = "done", !.i = i, !.vals = <<>>]

BStart ==
    /\ batch.pc = "idle"
    /\ batch' = LoopHead([batch EXCEPT !.pc = "running"], 0)
    /\ UNCHANGED <<extractVars, fetchVars, risk, histVars>>

SettleInCompletionOrder(vals, pos, v) ==
    LET free == CHOOSE p \in 1..Len(vals) :
                    vals[p] = "pending" /\ \A q \in 1..(p - 1) : vals[q] # "pending"
    IN  [vals EXCEPT ![free] = v]

\* Promise.all stores a fulfilment value at the position of its promise.
Settle(vals, pos, v) == [vals EXCEPT ![pos] = v]

\* The invocation of fn for item idx fulfils.
BComplete(idx) ==
    /\ batch.pc \in {"running", "failed"}
    /\ idx \in batch.inflight
    /\ batch' = [batch EXCEPT
            !.inflight = @ \ {idx},
            !.outOfOrder = @ \/ \E j \in batch.inflight : j < idx,
            !.vals = IF batch.pc = "running"
                     THEN Settle(@, idx - batch.i, FnResult(Ts(batch.n)[idx]))
                     ELSE @]
    /\ UNCHANGED <<extractVars, fetchVars, risk, histVars>>

RejectionSwallowed(b, idx) ==
    [b EXCEPT !.vals = IF b.pc = "running"
                       THEN [@ EXCEPT ![idx - b.i] = "rejected"] ELSE @]

\* What a rejection of the invocation for item idx does to doInBatches:
\* Promise.all rejects with the first rejection of its batch, the await of
\* line 35 throws, and doInBatches ends with that failure: no concat, no
\* further turn of the loop, no return.  A later rejection of the same batch
\* is not observed.
Rejected(b, idx) ==
    IF b.pc = "running"
    THEN [b EXCEPT !.pc = "failed", !.error = idx, !.vals = <<>>]
    ELSE b

\* The invocation of fn for item idx rejects.  The other invocations of the
\* batch go on and settle unobserved.
BFail(idx) ==
    /\ batch.pc \in {"running", "failed"}
    /\ idx \in batch.inflight
    /\ batch' = [Rejected(batch, idx) EXCEPT !.inflight = @ \ {idx},
                                             !.rejections = Append(@, idx)]
    /\ UNCHANGED <<extractVars, fetchVars, risk, histVars>>

AnySettled(vals) == \E p \in 1..Len(vals) : vals[p] # "pending"

\* Promise.all fulfils when every promise of the batch has fulfilled.
AllSettled(vals) == \A p \in 1..Len(vals) : vals[p] # "pending"

\* The await of line 35 resumes: concat, i += maxBatchSize, loop.
BResume ==
    /\ batch.pc = "running"
    /\ AllSettled(batch.vals)
    /\ batch' = LoopHead([batch EXCEPT !.result = @ \o batch.vals],
                         batch.i + batch.k)
    /\ UNCHANGED <<extractVars, fetchVars, risk, histVars>>

BatchInit ==
    /\ \E n \in 0..MaxItems, k \in 1..MaxBatchSize :
          batch = [pc |-> "idle", n |-> n, k |-> k, i |-> 0, started |-> {},
                   inflight |-> {}, vals |-> <<>>, result |-> <<>>, sizes |-> <<>>,
                   outOfOrder |-> FALSE, error |-> 0,
                   rejections |-> <<>>]
    /\ FetchParked
    /\ RiskParked
    /\ HistParked
    /\ ExtractParked

BatchNext ==
    \/ BStart
    \/ \E idx \in 1..MaxItems : BComplete(idx)
    \/ \E idx \in 1..MaxItems : BFail(idx)
    \/ BResume

SpecBatch == BatchInit /\ [][BatchNext]_vars

FetchInit ==
    /\ cache = EmptyMap
    /\ calls = [c \in Slots |-> IdleCall]
    /\ ncalls = 0
    /\ RiskParked
    /\ HistParked
    /\ BatchParked
    /\ ExtractParked

FetchNext ==
    \/ \E c \in DOMAIN calls, url \in URLs : FetchCall(c, url)
    \/ \E c \in DOMAIN calls, status \in {200, 429}, ver \in Vers :
            RespondParsed(c, status, ver)
    \/ \E c \in DOMAIN calls : RespondRateLimited(c)
    \/ \E c \in DOMAIN calls, e \in {"Transport", "Parse"} : RespondFailed(c, e)
    \/ \E c \in DOMAIN calls : RetryAfterWait(c)
    \/ \E c \in DOMAIN calls : FetchReturn(c)

SpecFetch == FetchInit /\ [][FetchNext]_vars

(***************************************************************************)
(* JavaScript numbers.  The pipeline's numbers are integers (timestamps in *)
(* seconds, counts) and quotients, squares and square roots of them; they  *)
(* are kept exact here: a finite number is a fraction in lowest terms with *)
(* a positive denominator, the square root of a non-square is kept as a    *)
(* root, and NaN, the infinities and undefined are values of their own.    *)
(* Rounding of the floating-point operations is not modelled.              *)
(***************************************************************************)
MaxSample == 4

SampleVals == {-1, 0, 1, 3}

Abs(a) == IF a < 0 THEN -a ELSE a

RECURSIVE GCD(_, _)
GCD(a, b) == IF b = 0 THEN a ELSE GCD(b, a % b)

Rat(n, d) ==
    LET g == GCD(Abs(n), Abs(d))
        sg == IF d < 0 THEN -1 ELSE 1
    IN  [kind |-> "number", num |-> sg * (n \div g), den |-> sg * (d \div g)]

Number(x) == Rat(x, 1)

NaN == [kind |-> "NaN"]

Infinity(sign) == [kind |-> "Infinity", sign |-> sign]

Undefined == [kind |-> "undefined"]

Plus(a, b) == Rat(a.num * b.den + b.num * a.den, a.den * b.den)

Minus(a, b) == Rat(a.num * b.den - b.num * a.den, a.den * b.den)

\* Math.pow(x, 2)
Pow2(a) == IF a.kind = "number" THEN Rat(a.num * a.num, a.den * a.den) ELSE NaN

DivideOrZero(a, n) == IF n = 0 THEN Number(0) ELSE Rat(a.num, a.den * n)

\* a / n for an array length n: 0 / 0 is NaN, x / 0 an infinity.
Divide(a, n) ==
    IF n # 0 THEN Rat(a.num, a.den * n)
    ELSE IF a.num = 0 THEN NaN
    ELSE Infinity(IF a.num > 0 THEN 1 ELSE -1)

\* Math.sqrt
Sqrt(a) ==
    IF a.kind # "number" \/ a.num < 0 THEN NaN
    ELSE IF \E p \in 0..a.num, q \in 1..a.den : p * p = a.num /\ q * q = a.den
         THEN LET p == CHOOSE p \in 0..a.num : p * p = a.num
                  q == CHOOSE q \in 1..a.den : q * q = a.den
              IN  Rat(p, q)
         ELSE [kind |-> "sqrt", of |-> a]

\* nums.reduce((acc, num) => acc + num, 0)
RECURSIVE ReduceSum(_)
ReduceSum(nums) ==
    IF nums = <<>> THEN Number(0)
    ELSE Plus(ReduceSum(SubSeq(nums, 1, Len(nums) - 1)), Number(nums[Len(nums)]))

\* nums.reduce((acc, num) => acc + Math.pow(num - average, 2), 0)
RECURSIVE ReduceSquares(_, _)
ReduceSquares(nums, average) ==
    IF nums = <<>> THEN Number(0)
    ELSE Plus(ReduceSquares(SubSeq(nums, 1, Len(nums) - 1), average),
              Pow2(Minus(Number(nums[Len(nums)]), average)))

CompareDescending(a, b) == b - a

\* The comparator of line 590.
Compare(a, b) == a - b

\* Array.prototype.sort(compare): x goes before the first element that
\* compares greater than it.
RECURSIVE Insert(_, _)
Insert(sorted, x) ==
    IF sorted = <<>> THEN <<x>>
    ELSE IF Compare(x, Head(sorted)) < 0 THEN <<x>> \o sorted
    ELSE <<Head(sorted)>> \o Insert(Tail(sorted), x)

RECURSIVE Sort(_)
Sort(nums) ==
    IF nums = <<>> THEN <<>>
    ELSE Insert(Sort(SubSeq(nums, 1, Len(nums) - 1)), nums[Len(nums)])

\* arr[i] with the code's 0-based index: undefined past the end.
At(arr, i) == IF i + 1 \in DOMAIN arr THEN Number(arr[i + 1]) ELSE Undefined

StatNames == <<"Average", "Median", "Q1", "Q3", "StdDev">>

\* The record of lines 596-602: five computed keys.
StatsRecord(base, average, median, q1, q3, stdDev) ==
    LET v == <<average, median, q1, q3, stdDev>> IN
    [key \in {base \o StatNames[j] : j \in 1..5} |->
        v[CHOOSE j \in 1..5 : key = base \o StatNames[j]]]

\* extractDistributionStatistics(baseFeatureName, nums): the record returned
\* and the array nums as the call leaves it (sort works in place, and
\* sortedNums is the same array as nums).
extractDistributionStatistics(base, nums) ==
    LET n == Len(nums)
        average == Divide(ReduceSum(nums), n)
        sortedNums == Sort(nums)
        median == At(sortedNums, n \div 2)
        q1 == At(sortedNums, n \div 4)
        q3 == At(sortedNums, (n * 3) \div 4)
        stdDev == Sqrt(IF average.kind = "number"
                       THEN Divide(ReduceSquares(sortedNums, average), n)
                       ELSE NaN)
    IN  [stats |-> StatsRecord(base, average, median, q1, q3, stdDev),
         nums |-> sortedNums]

BaseNames == {"timeBetweenRevisions", "timeBetweenUserRevisions"}

Samples == UNION {[1..n -> SampleVals] : n \in 0..MaxSample}

\* A caller holds an array and is about to pass it.
StatsInit ==
    /\ \E base \in BaseNames, nums \in Samples :
          stats = [pc |-> "ready", base |-> base, nums |-> nums,
                   passed |-> nums, out |-> Undefined]
    /\ DiffParked /\ FeatParked
    /\ FetchParked /\ RiskParked /\ HistParked /\ BatchParked

StatsCall ==
    /\ stats.pc = "ready"
    /\ LET r == extractDistributionStatistics(stats.base, stats.nums) IN
         stats' = [stats EXCEPT !.pc = "returned", !.nums = r.nums, !.out = r.stats]
    /\ UNCHANGED <<fetchVars, risk, histVars, batch, dtext, feat>>

StatsNext == StatsCall

SpecStats == StatsInit /\ [][StatsNext]_vars

(***************************************************************************)
(* fetchDiffFromRevId on its own: a compare payload arrives and lines      *)
(* 556-570 validate it and extract the diff.  A text is a sequence of      *)
(* tokens: the two tags and plain content.                                 *)
(***************************************************************************)
MaxDiffLen == 4

DiffTokens == {"<pre>", "</pre>", "a"}

DiffTexts == UNION {[1..n -> DiffTokens] : n \in 0..MaxDiffLen}

ComparePayloads ==
    {[kind |-> "compare", text |-> t] : t \in DiffTexts} \cup {[kind |-> "nocompare"]}

DiffInit ==
    /\ \E data \in ComparePayloads :
          dtext = [pc |-> "fetched", data |-> data, out |-> NoResult]
    /\ StatsParked /\ FeatParked
    /\ FetchParked /\ RiskParked /\ HistParked /\ BatchParked

DiffExtract ==
    /\ dtext.pc = "fetched"
    /\ dtext' = [dtext EXCEPT !.pc = "returned", !.out = ExtractDiff(dtext.data)]
    /\ UNCHANGED <<fetchVars, risk, histVars, batch, stats, feat>>

DiffNext == DiffExtract

SpecDiff == DiffInit /\ [][DiffNext]_vars

(***************************************************************************)
(* extractFeatures(revisionUrl).  The call runs fetchPastRevisions (the    *)
(* history component above), computes the statistics, runs                 *)
(* fetchRevertRiskScore (the risk component above) and assembles the       *)
(* record.  feat.pc is "history" while line 611 awaits, "risk" while line  *)
(* 627 awaits, "done" when the call has returned or thrown.  After a call  *)
(* returned, or threw on what it had received, the caller may call once    *)
(* more on the same locator: the cache is the one the first call left, the *)
(* upstream has not changed; feat.first keeps the first outcome and        *)
(* hist.requests restarts empty, so that it lists the requests of the      *)
(* running call.                                                           *)
(***************************************************************************)
\* differences(nums) of lines 606-608.
differences(nums) == [i \in 1..Max(Len(nums) - 1, 0) |-> nums[i + 1] - nums[i]]

Timestamps(revisions) == [i \in 1..Len(revisions) |-> revisions[i].timestamp]

ByOtherUsers(revisions, userId) == SelectSeq(revisions, LAMBDA r : r.userId # userId)

\* pastRevisions.filter(r => r.userId === thisRevision.userId)
ByUser(revisions, userId) == SelectSeq(revisions, LAMBDA r : r.userId = userId)

\* The reduce of lines 578-584: the sum over index >= 1 of
\* revision.timestamp - revisions[index - 1].timestamp.
RECURSIVE ReduceGaps(_)
ReduceGaps(revisions) ==
    IF Len(revisions) < 2 THEN Number(0)
    ELSE Plus(ReduceGaps(SubSeq(revisions, 1, Len(revisions) - 1)),
              Number(revisions[Len(revisions)].timestamp
                        - revisions[Len(revisions) - 1].timestamp))

\* The guard of line 574.
FewerThanTwo(n) == n < 2

calculateAverageTimeBetweenRevisions(revisions) ==
    IF FewerThanTwo(Len(revisions)) THEN Number(0)
    ELSE Divide(ReduceGaps(revisions), Len(revisions))

\* Lines 612-626: what extractFeatures computes from the history before it
\* asks for the risk score.
FeatureLocals(pastRevisions) ==
    LET thisRevision == pastRevisions[1]
        byUser == ByUser(pastRevisions, thisRevision.userId)
        timesBetweenRevisions == Reverse(differences(Timestamps(pastRevisions)))
        timesBetweenUserRevisions == Reverse(differences(Timestamps(byUser)))
    IN  [thisRevision |-> thisRevision,
         pastRevisionsCount |-> Len(pastRevisions),
         timesBetweenRevisionsStats |->
             extractDistributionStatistics("timeBetweenRevisions",
                                           timesBetweenRevisions).stats,
         timesBetweenUserRevisionsStats |->
             extractDistributionStatistics("timeBetweenUserRevisions",
                                           timesBetweenUserRevisions).stats,
         averageTimeBetweenRevisions |->
             calculateAverageTimeBetweenRevisions(pastRevisions),
         pastRevisionsAuthoredByUser |-> Len(byUser),
         averageTimeBetweenUserAuthoredRevisions |->
             calculateAverageTimeBetweenRevisions(byUser)]

\* Lines 628-642: the object literal; the two spreads come last.
Features(l, revertRiskModelScore) ==
    l.timesBetweenUserRevisionsStats @@ l.timesBetweenRevisionsStats @@
    [authorUserName |-> l.thisRevision.userId,
     pastRevisionsCount |-> Number(l.pastRevisionsCount),
     averageTimeBetweenRevisions |-> l.averageTimeBetweenRevisions,
     pastRevisionsAuthoredByUser |-> Number(l.pastRevisionsAuthoredByUser),
     revertRiskModelScore |-> revertRiskModelScore,
     percPastRevisionsAuthored |->
         Divide(Number(l.pastRevisionsAuthoredByUser), l.pastRevisionsCount),
     averageTimeBetweenUserAuthoredRevisions |->
         l.averageTimeBetweenUserAuthoredRevisions,
     diffText |-> l.thisRevision.diff]

MaxFeatRevs == 3

FeatInit ==
    /\ WikiInit
    /\ Len(wiki.revs) <= MaxFeatRevs
    /\ \E title \in BOOLEAN, oldid \in 0..MaxFeatRevs :
          /\ oldid <= Max(Len(wiki.revs), 1)
          /\ hist = HistIdle([title |-> title, oldid |-> oldid])
    /\ feat = [pc |-> "history", call |-> 1, first |-> NoResult,
               locals |-> Undefined, result |-> NoResult]
    /\ cache = EmptyMap
    /\ calls = EmptyMap
    /\ ncalls = 0
    /\ RiskParked
    /\ BatchParked
    /\ StatsParked /\ DiffParked

\* Line 611 resumes.  A failure of fetchPastRevisions leaves extractFeatures;
\* otherwise lines 612-626 run and line 627 calls fetchRevertRiskScore with
\* thisRevision.userId.
FHistory ==
    /\ feat.pc = "history"
    /\ hist.pc = "done"
    /\ IF hist.result.kind = "error"
       THEN /\ feat' = [feat EXCEPT !.pc = "done", !.result = hist.result]
            /\ UNCHANGED risk
       ELSE /\ feat' = [feat EXCEPT !.pc = "risk",
                                    !.locals = FeatureLocals(hist.result.payload)]
            /\ risk' = RiskLoop([risk EXCEPT
                           !.arg = hist.result.payload[1].userId,
                           !.retryCount = RiskRetryCount])
    /\ UNCHANGED <<fetchVars, histVars, batch, stats, dtext>>

\* Line 627 resumes and the record is returned.
FRisk ==
    /\ feat.pc = "risk"
    /\ risk.pc = "done"
    /\ feat' = [feat EXCEPT
            !.pc = "done",
            !.result = IF risk.result.kind = "error" THEN risk.result
                       ELSE Value(Features(feat.locals, risk.result.payload))]
    /\ UNCHANGED <<fetchVars, risk, histVars, batch, stats, dtext>>

\* The outcome of the call came from responses that were received: a record,
\* or a failure other than one of the network.
AnsweredByUpstream(result) ==
    result.kind = "error" => result.err \notin {"Transport", "RateLimitExceeded"}

\* extractFeatures is called again on the same locator.  The model repeats
\* the calls whose requests were all answered.
FAgain ==
    /\ feat.pc = "done"
    /\ feat.call = 1
    /\ AnsweredByUpstream(feat.result)
    /\ feat' = [pc |-> "history", call |-> 2, first |-> feat.result,
                locals |-> Undefined, result |-> NoResult]
    /\ hist' = HistIdle(hist.locator)
    /\ risk' = RiskOff
    /\ UNCHANGED <<fetchVars, wiki, batch, stats, dtext>>

FeatNext ==
    \/ HCall
    \/ \E body \in {"ok", "alt"} : HPage(body)
    \/ \E body \in {"ok", "alt"} : HDiff(body)
    \/ \E e \in {"Transport", "RateLimitExceeded"} : HFetchFails(e)
    \/ FHistory
    \/ \E o \in RiskOutcomes, score \in Scores : RiskRespond(o, score)
    \/ RiskTimer
    \/ FRisk
    \/ FAgain

SpecFeatures == FeatInit /\ [][FeatNext]_vars

(***************************************************************************)
(* The whole model: one of the components runs.                            *)
(***************************************************************************)
Init == FetchInit \/ RiskInit \/ HistInit \/ BatchInit \/ StatsInit \/ DiffInit
        \/ FeatInit

Next == FetchNext \/ RiskNext \/ HistNext \/ BatchNext \/ StatsNext \/ DiffNext
        \/ FeatNext

Spec == Init /\ [][Next]_vars

(***************************************************************************)
(* Claims about fetchWithRetry (SpecFetch).                                *)
(***************************************************************************)
\* An activation enters fetchWithRetry in this step: a caller's call, or the
\* recursive call after the wait.
Enters(c) == calls[c].pc \in {"idle", "waiting"} /\ calls'[c].pc # calls[c].pc

\* C4: a call whose URL is already a key of the cache returns the payload
\* stored for that exact URL and issues no network request, and what a call
\* returns from the cache is never the payload of another URL.
C4_CacheHitReturnsStored ==
    [][\A c \in DOMAIN calls :
        /\ (Enters(c) /\ calls'[c].url \in DOMAIN cache) =>
                /\ calls'[c].pc = "done"
                /\ calls'[c].hit
                /\ calls'[c].result = Value(cache[calls'[c].url])
                /\ calls'[c].reqs = calls[c].reqs
                /\ cache' = cache
        /\ (Enters(c) /\ calls'[c].hit) =>
                /\ calls'[c].url \in DOMAIN cache
                /\ calls'[c].result.payload.url = calls'[c].url
      ]_vars

\* C4 witness: a call was served from the cache while the cache also held a
\* different payload under the other URL.
C4_Witness ==
    \E c \in DOMAIN calls :
        /\ calls[c].pc = "done" /\ calls[c].hit /\ calls[c].reqs = 0
        /\ \E u \in DOMAIN cache :
              u # calls[c].url /\ cache[u] # calls[c].result.payload

\* C5: a 429 answer always leads to the 10 s wait and a retry, at most 3
\* retries are made, persisting rate limiting ends in the rate-limit-exceeded
\* error, and a rate-limited response is never returned or cached as a payload.
C5_RateLimitAlwaysRetried ==
    /\ \A c \in DOMAIN calls :
        /\ calls[c].waited <= DefaultRetryCount * rateLimitExceededWaitTimeSeconds
        /\ calls[c].result = Failure("RateLimitExceeded") =>
              /\ calls[c].reqs = DefaultRetryCount + 1
              /\ calls[c].waited = DefaultRetryCount * rateLimitExceededWaitTimeSeconds
        /\ calls[c].result.kind = "value" => calls[c].result.payload.status # 429
    /\ \A u \in DOMAIN cache : cache[u].status # 429

Returned == hist.pc = "done" /\ hist.result.kind = "value"

ReturnedIds == {hist.result.payload[i].revid : i \in 1..Len(hist.result.payload)}

\* C1: the returned sequence holds the subject revision (the locator's oldid)
\* and no revision committed after it: it is the ancestor chain 1..oldid.
C1_AncestorChainOfSubject ==
    Returned => ReturnedIds = 1..hist.locator.oldid

\* C2: the returned sequence is newest-first: timestamps do not increase
\* with the index, for a history of one page and of several pages.
C2_NewestFirst ==
    Returned =>
        \A i, j \in 1..Len(hist.result.payload) :
            i < j => hist.result.payload[i].timestamp >= hist.result.payload[j].timestamp

\* C3: with getDiffs = false exactly one returned revision, the one at
\* index 0, has a diff, and every other revision has diff = null.
C3_OnlyFirstHasDiff ==
    (Returned /\ ~getDiffs) =>
        \A i \in 1..Len(hist.result.payload) :
            (hist.result.payload[i].diff # "null") <=> (i = 1)

\* C18: when a history response lacks the expected page structure (no query
\* or pages, or a page entry without a revisions list) fetchPastRevisions
\* fails with the unexpected-response-structure error and no other.
C18_MalformedHistoryIsStructureError ==
    (/\ hist.pc = "done"
     /\ \E u \in DOMAIN cache : u[1] = "revisions" /\ cache[u].kind # "page")
        => hist.result = Failure("UnexpectedStructure")

(***************************************************************************)
(* Claims about doInBatches (SpecBatch).                                   *)
(***************************************************************************)
CeilDiv(n, k) == (n + k - 1) \div k

BatchOf(idx) == (idx - 1) \div batch.k

\* C9: when no invocation fails, ceil(n/k) batches are issued, every batch
\* but the last has k items (12 items with k = 5: 5, 5, 2), and result[j] is
\* the outcome of fn on item j, whatever the order of completion.
C9_BatchesAndOrder ==
    batch.pc = "done" =>
        /\ Len(batch.sizes) = CeilDiv(batch.n, batch.k)
        /\ \A s \in 1..(Len(batch.sizes) - 1) : batch.sizes[s] = batch.k
        /\ (batch.n = 12 /\ batch.k = 5) => batch.sizes = <<5, 5, 2>>
        /\ Len(batch.result) = batch.n
        /\ \A j \in 1..batch.n : batch.result[j] = FnResult(Ts(batch.n)[j])

\* C9 witness: 12 items in batches of 5 finished, after some invocation had
\* completed before one that precedes it in the input.
C9_Witness ==
    /\ batch.pc = "done"
    /\ batch.n = 12 /\ batch.k = 5
    /\ batch.outOfOrder

\* C10: at most k invocations of fn are in flight, and nothing of a later
\* batch has started while an invocation of an earlier batch is in flight.
C10_BoundedInFlight ==
    batch.pc # "off" =>
        /\ Cardinality(batch.inflight) <= batch.k
        /\ \A a \in batch.inflight, b \in batch.started : BatchOf(b) <= BatchOf(a)

\* C10 witness: a second batch of k > 1 items is entirely in flight.
C10_Witness ==
    /\ batch.pc = "running"
    /\ batch.k > 1 /\ batch.i > 0
    /\ Cardinality(batch.inflight) = batch.k

\* C11: once an invocation of fn has failed in batch j, doInBatches has failed
\* with the failure of batch j that came first, it never returns a result
\* list (the results of the earlier batches included), and no item of a
\* batch after j has been handed to fn.
C11_FailureAbortsLaterBatches ==
    (batch.pc # "off" /\ batch.rejections # <<>>) =>
        /\ batch.pc = "failed"
        /\ batch.error = batch.rejections[1]
        /\ \A r \in 1..Len(batch.rejections) :
                BatchOf(batch.rejections[r]) = BatchOf(batch.error)
        /\ \A s \in batch.started : BatchOf(s) <= BatchOf(batch.error)
        /\ batch.started = 1..Min(batch.i + batch.k, batch.n)

\* C11 witness: an invocation of the second batch failed after the first
\* batch had been collected, with a third batch still to come.
C11_Witness ==
    /\ batch.pc = "failed"
    /\ batch.i > 0 /\ Len(batch.result) = batch.i
    /\ batch.i + batch.k < batch.n
    /\ batch.inflight = {}

(***************************************************************************)
(* Claims about fetchRevertRiskScore (SpecRisk).                           *)
(***************************************************************************)
\* C7: at most 3 requests per call, and a 10 s wait lies between any two
\* consecutive attempts, whatever made the earlier one fail.
C7_WaitBetweenAttempts ==
    /\ risk.reqs <= RiskRetryCount
    /\ \A i \in 1..(Len(risk.log) - 1) :
          ~(risk.log[i] = "req" /\ risk.log[i + 1] = "req")

RECURSIVE SeqSum(_)
SeqSum(s) == IF s = <<>> THEN 0 ELSE Head(s) + SeqSum(Tail(s))

RECURSIVE SeqSumSq(_)
SeqSumSq(s) == IF s = <<>> THEN 0 ELSE Head(s) * Head(s) + SeqSumSq(Tail(s))

\* x is the element at 0-based position k of the sample in ascending order.
IsOrderStat(sample, k, x) ==
    /\ x.kind = "number" /\ x.den = 1
    /\ \E j \in DOMAIN sample : sample[j] = x.num
    /\ Cardinality({j \in DOMAIN sample : sample[j] < x.num}) <= k
    /\ k < Cardinality({j \in DOMAIN sample : sample[j] <= x.num})

\* The square of a non-negative value of Sqrt.
SquareOf(r) == IF r.kind = "sqrt" THEN r.of ELSE Pow2(r)

StatOut(name) == stats.out[stats.base \o name]

\* C13: for a sample of n >= 1 numbers, Average is the arithmetic mean,
\* Median, Q1 and Q3 are the elements at 0-based positions floor(n/2),
\* floor(n/4) and floor(3n/4) of the ascending order, and StdDev is the
\* non-negative square root of the population variance (divisor n); for
\* n = 1 the first four equal the element and StdDev is 0.
C13_StatisticsOfSample ==
    (stats.pc = "returned" /\ Len(stats.passed) >= 1) =>
        LET s == stats.passed
            n == Len(s)
            sq == SquareOf(StatOut("StdDev"))
        IN  /\ StatOut("Average").kind = "number"
            /\ StatOut("Average").num * n = StatOut("Average").den * SeqSum(s)
            /\ IsOrderStat(s, n \div 2, StatOut("Median"))
            /\ IsOrderStat(s, n \div 4, StatOut("Q1"))
            /\ IsOrderStat(s, (3 * n) \div 4, StatOut("Q3"))
            /\ StatOut("StdDev").kind \in {"number", "sqrt"}
            /\ StatOut("StdDev").kind = "number" => StatOut("StdDev").num >= 0
            /\ sq.num * n * n = sq.den * (n * SeqSumSq(s) - SeqSum(s) * SeqSum(s))
            /\ n = 1 => /\ \A name \in {"Average", "Median", "Q1", "Q3"} :
                              StatOut(name) = Number(s[1])
                        /\ StatOut("StdDev") = Number(0)

\* C13 witness: the statistics of an unsorted sample of four numbers with
\* three different quartile values and an irrational deviation.
C13_Witness ==
    /\ stats.pc = "returned"
    /\ Len(stats.passed) = 4
    /\ stats.passed # Sort(stats.passed)
    /\ StatOut("Q1") # StatOut("Median") /\ StatOut("Median") # StatOut("Q3")
    /\ StatOut("StdDev").kind = "sqrt"

\* C14: for the empty sample the call returns a record with the five fields
\* of its base name, and Average and StdDev are NaN, not a substituted value.
C14_EmptySample ==
    (stats.pc = "returned" /\ stats.passed = <<>>) =>
        /\ DOMAIN stats.out =
               {stats.base \o name : name \in {"Average", "Median", "Q1", "Q3", "StdDev"}}
        /\ StatOut("Average") = NaN
        /\ StatOut("StdDev") = NaN

\* C14 witness: the call on the empty sample has returned; the positional
\* fields are undefined.
C14_Witness ==
    /\ stats.pc = "returned"
    /\ stats.passed = <<>>
    /\ StatOut("Median") = Undefined

\* C20: after the call the array passed as nums has the same elements in the
\* same order as before the call.
C20_InputUnchanged ==
    stats.pc = "returned" => stats.nums = stats.passed

(***************************************************************************)
(* Claims about fetchDiffFromRevId (SpecDiff).                             *)
(***************************************************************************)
Opens(text) == {i \in DOMAIN text : text[i] = "<pre>"}

\* The text holds exactly one preformatted block: one opening tag, closed
\* further on.
OneBlock(text) ==
    /\ Cardinality(Opens(text)) = 1
    /\ \E i \in Opens(text), j \in DOMAIN text : i < j /\ text[j] = "</pre>"

\* The content between the opening tag and the first closing tag after it.
InnerContent(text) ==
    LET i == CHOOSE i \in Opens(text) : TRUE
        j == CHOOSE j \in DOMAIN text :
                 /\ i < j /\ text[j] = "</pre>"
                 /\ \A k \in (i + 1)..(j - 1) : text[k] # "</pre>"
    IN  [k \in 1..(j - i - 1) |-> text[i + k]]

\* C19: on a compare payload with exactly one preformatted block the call
\* returns the block's inner content; on any other compare payload it fails
\* with the unexpected-diff-format error and returns no text.
C19_OneBlockOrFormatError ==
    (dtext.pc = "returned" /\ dtext.data.kind = "compare") =>
        IF OneBlock(dtext.data.text)
        THEN dtext.out = Value(InnerContent(dtext.data.text))
        ELSE dtext.out = Failure("UnexpectedDiffFormat")

(***************************************************************************)
(* Claims about extractFeatures (SpecFeatures).                            *)
(***************************************************************************)
FeatureNames ==
    {"authorUserName", "pastRevisionsCount", "averageTimeBetweenRevisions",
     "pastRevisionsAuthoredByUser", "revertRiskModelScore",
     "percPastRevisionsAuthored", "averageTimeBetweenUserAuthoredRevisions",
     "diffText"}
    \cup {base \o name : base \in BaseNames,
                         name \in {"Average", "Median", "Q1", "Q3", "StdDev"}}

StatisticNames ==
    FeatureNames \ {"authorUserName", "pastRevisionsCount", "diffText",
                    "pastRevisionsAuthoredByUser", "revertRiskModelScore",
                    "percPastRevisionsAuthored"}

\* Every request was answered, and answered with the upstream's regular body.
UpstreamHealthy ==
    /\ \A u \in DOMAIN cache : cache[u] = Upstream(wiki, u, "ok")
    /\ ~(hist.result.kind = "error"
            /\ hist.result.err \in {"Transport", "RateLimitExceeded"})

CompleteLocator == hist.locator.title /\ hist.locator.oldid # 0

\* C12: on a complete locator and a healthy upstream extractFeatures does not
\* throw and returns a record with the same 18 field names for every history
\* size; for a history of zero or one revision its statistics are 0 or NaN.
C12_RecordForEveryHistorySize ==
    (feat.pc = "done" /\ UpstreamHealthy /\ CompleteLocator) =>
        /\ feat.result.kind = "value"
        /\ DOMAIN feat.result.payload = FeatureNames
        /\ Cardinality(FeatureNames) = 18
        /\ Len(wiki.revs) <= 1 =>
              \A name \in StatisticNames :
                  feat.result.payload[name] \in {Number(0), NaN}

RECURSIVE ChronologicalGaps(_)
ChronologicalGaps(revs) ==
    IF Len(revs) < 2 THEN 0
    ELSE UnixTimestamp(revs[Len(revs)].timestamp)
            - UnixTimestamp(revs[Len(revs) - 1].timestamp)
            + ChronologicalGaps(SubSeq(revs, 1, Len(revs) - 1))

\* C15: averageTimeBetweenRevisions of a returned record is 0 for a history
\* of fewer than 2 revisions and, for n >= 2 revisions, the sum of the n - 1
\* gaps between chronologically consecutive revisions divided by n; it is
\* never negative.
C15_AverageTimeBetweenRevisions ==
    (feat.pc = "done" /\ feat.result.kind = "value") =>
        LET n == Len(wiki.revs)
            avg == feat.result.payload["averageTimeBetweenRevisions"]
        IN  /\ avg.kind = "number" /\ avg.num >= 0
            /\ n < 2 => avg = Number(0)
            /\ n >= 2 => avg.num * n = avg.den * ChronologicalGaps(wiki.revs)

IncompleteLocator == feat.pc # "off" /\ ~CompleteLocator

\* The history was fetched to its last page and every page was well formed.
WholeHistoryFetched ==
    /\ \A u \in DOMAIN cache : cache[u].kind = "page"
    /\ \E u \in DOMAIN cache : cache[u].continue = <<>>

\* C17 as stated: a locator without title, or with a title and no oldid,
\* makes extractFeatures fail with the invalid-locator error, the risk
\* endpoint is never called, and without a title no request is issued.
C17_InvalidLocatorError ==
    (IncompleteLocator /\ feat.pc = "done") =>
        /\ feat.result = Failure("InvalidLocator")
        /\ risk = RiskOff
        /\ ~hist.locator.title => hist.requests = <<>>

\* C17 amended: such a locator makes extractFeatures fail, without a record,
\* a diff request or a call of the risk endpoint.  Without a title the
\* failure is the invalid-locator error and precedes every request.  With a
\* title and no oldid the history is requested first: the failure is the
\* invalid-locator error exactly when the whole history arrived well formed,
\* and the failure of the history request otherwise.
C17_IncompleteLocatorFails ==
    IncompleteLocator =>
        /\ risk = RiskOff
        /\ \A r \in 1..Len(hist.requests) : hist.requests[r][1] = "revisions"
        /\ feat.pc = "done" =>
              /\ feat.result.kind = "error"
              /\ ~hist.locator.title =>
                    /\ feat.result = Failure("InvalidLocator")
                    /\ hist.requests = <<>> /\ cache = EmptyMap
              /\ hist.locator.title =>
                    (feat.result = Failure("InvalidLocator") <=> WholeHistoryFetched)

\* C17 witness: a locator with a title and no oldid failed with the
\* invalid-locator error after a history of several pages had been fetched.
C17_Witness ==
    /\ feat.pc = "done"
    /\ hist.locator.title /\ hist.locator.oldid = 0
    /\ feat.result = Failure("InvalidLocator")
    /\ Len(hist.requests) >= 2

\* C16: a second call on the same locator, with the cache the first call
\* left and an unchanged upstream, sends no request to the history or diff
\* endpoints, sends at least one request to the risk endpoint, and returns a
\* record equal to the first in every field but revertRiskModelScore.
C16_SecondCallRepeatsFirst ==
    (feat.pc # "off" /\ feat.call = 2 /\ feat.first.kind = "value") =>
        /\ hist.requests = <<>>
        /\ feat.pc = "done" =>
              /\ risk.reqs >= 1
              /\ feat.result.kind = "value"
              /\ DOMAIN feat.result.payload = DOMAIN feat.first.payload
              /\ \A name \in DOMAIN feat.first.payload \ {"revertRiskModelScore"} :
                    feat.result.payload[name] = feat.first.payload[name]

\* C16 witness: the second call on a history of several pages has returned,
\* with a risk score other than the first call's.
C16_Witness ==
    /\ feat.pc = "done" /\ feat.call = 2
    /\ feat.first.kind = "value"
    /\ Cardinality(DOMAIN cache) >= 3
    /\ feat.result.payload["revertRiskModelScore"] = "p25"
    /\ feat.first.payload["revertRiskModelScore"] = "p75"

\* C25: in every record returned, 1 <= pastRevisionsAuthoredByUser <=
\* pastRevisionsCount, and percPastRevisionsAuthored is a number in (0, 1].
C25_AuthoredAtLeastOne ==
    (feat.pc = "done" /\ feat.result.kind = "value") =>
        LET authored == feat.result.payload["pastRevisionsAuthoredByUser"]
            count == feat.result.payload["pastRevisionsCount"]
            perc == feat.result.payload["percPastRevisionsAuthored"]
        IN  /\ authored.kind = "number" /\ authored.den = 1
            /\ count.kind = "number" /\ count.den = 1
            /\ 1 <= authored.num /\ authored.num <= count.num
            /\ count.num = Len(wiki.revs)
            /\ perc.kind = "number"
            /\ 0 < perc.num /\ perc.num <= perc.den
            /\ perc.num * count.num = perc.den * authored.num

\* C25 witness: a record for a history in which the author of the subject
\* revision wrote some revisions and not all of them.
C25_Witness ==
    /\ feat.pc = "done" /\ feat.result.kind = "value"
    /\ feat.result.payload["pastRevisionsAuthoredByUser"] = Number(2)
    /\ feat.result.payload["pastRevisionsCount"] = Number(3)

(***************************************************************************)
(* Claims about the cache under concurrent calls (SpecFetch).              *)
(***************************************************************************)
\* Every cache entry is a body that a request for its own key returned and
\* response.json() parsed.
EntriesAreParsedPayloads ==
    \A u \in DOMAIN cache :
        \E status \in {200, 429}, ver \in Vers : cache[u] = Payload(u, status, ver)

\* C24: every cache entry holds a payload fetched and parsed for its own
\* URL; the step in which a call fails adds no entry, and a call that failed
\* has stored nothing; no step removes an entry.
C24_CacheEntries ==
    /\ []EntriesAreParsedPayloads
    /\ [][/\ DOMAIN cache \subseteq DOMAIN cache'
          /\ \A c \in DOMAIN calls :
                (calls'[c].result.kind = "error" /\ calls[c].result.kind # "error")
                    => (cache' = cache /\ calls'[c].stored = 0)]_vars

\* C24 witness: a call has failed while the cache holds entries for both
\* URLs, stored by other calls.
C24_Witness ==
    /\ DOMAIN cache = URLs
    /\ \E c \in DOMAIN calls : calls[c].result.kind = "error"

\* C22: when two calls for one URL both missed the cache, both sent a
\* request and both were answered, the cache holds one entry for the URL: a
\* payload returned for that URL, the one of the call answered last.
C22_ConcurrentMissesLastWriterWins ==
    \A c \in DOMAIN calls :
        (calls[c].rivals >= 1 /\ calls[c].pc \in {"fetching", "done"}) =>
            /\ CacheHas(cache, calls[c].url)
            /\ CacheGet(cache, calls[c].url).url = calls[c].url
            /\ (calls[c].pc = "done" /\ calls[c].result.kind = "value") =>
                  CacheGet(cache, calls[c].url) = calls[c].result.payload

\* C22 witness: the second of two concurrent requests for one URL has been
\* answered and stored, after the first had been answered and stored.
C22_Witness ==
    \E c \in DOMAIN calls :
        /\ calls[c].pc = "done" /\ calls[c].result.kind = "value"
        /\ calls[c].rivals = 1 /\ calls[c].stored = 1
        /\ calls[c].reqs = 1

(***************************************************************************)
(* Claims about the pagination of fetchPastRevisions (SpecHistory).        *)
(***************************************************************************)
\* The history requests sent so far, in the order they were sent.
PageRequests == SelectSeq(hist.requests, LAMBDA u : u[1] = "revisions")

\* C21: the first page is requested without a start id; a further page is
\* requested only once the response to the page before it has arrived with
\* a continuation marker, and with the id that marker names; a response
\* without a marker is followed by no page request; no page is requested
\* twice, and a fetch that returns has requested every page of the history.
C21_PagesInSequence ==
    (hist.pc # "off" /\ PageRequests # <<>>) =>
        LET q == PageRequests
            last == q[Len(q)]
        IN  /\ q[1] = HistoryUrl(0)
            /\ \A i \in 1..(Len(q) - 1) :
                  /\ CacheHas(cache, q[i])
                  /\ cache[q[i]].kind = "page"
                  /\ cache[q[i]].continue # <<>>
                  /\ q[i + 1] = HistoryUrl(cache[q[i]].continue[2])
            /\ \A i, j \in 1..Len(q) : i # j => q[i] # q[j]
            /\ hist.pc = "awaitPage" <=> ~CacheHas(cache, last) /\ hist.pc # "done"
            /\ (CacheHas(cache, last) /\ cache[last].kind = "page") =>
                  cache[last].continue = <<>>
            /\ Len(q) <= CeilDiv(Len(wiki.revs), wiki.pageSize) + 1
            /\ Returned => Len(q) = CeilDiv(Len(wiki.revs), wiki.pageSize)

\* C21 witness: a history of three or more pages has been fetched and the
\* call has returned.
C21_Witness ==
    /\ Returned
    /\ Len(PageRequests) >= 3

\* The first call failed on a malformed response: a history response without
\* query or without a revisions list, or a compare response that
\* fetchDiffFromRevId rejects.
FailedOnMalformedResponse ==
    /\ feat.first.kind = "error"
    /\ feat.first.err \in {"UnexpectedStructure", "TypeError", "UnexpectedDiffFormat"}

\* C23: a call that follows one that failed on a malformed response sends no
\* request for any history or diff URL and fails with the same error.
C23_MalformedResponseIsCached ==
    (feat.pc # "off" /\ feat.call = 2 /\ FailedOnMalformedResponse) =>
        /\ hist.requests = <<>>
        /\ \E u \in DOMAIN cache : cache[u] # Upstream(wiki, u, "ok")
                                    \/ cache[u].kind = "missing"
        /\ feat.pc = "done" => feat.result = feat.first

\* C23 witness: the second call has failed from the cache on the malformed
\* diff that the first call met after a history of several pages.
C23_Witness ==
    /\ feat.pc = "done" /\ feat.call = 2
    /\ feat.first = Failure("UnexpectedDiffFormat")
    /\ feat.result = feat.first
    /\ Cardinality(DOMAIN cache) >= 3

=============================================================================
